---- MODULE Spec2Model ----
(***************************************************************************)
(* A model of the Redis cache service (app/api/v1/endpoints.py,            *)
(* app/core/cache.py), its HTTP client (client/client.py) and the workflow *)
(* coordinator (scripts/workflow.py).                                      *)
(*                                                                         *)
(* Time is counted in whole seconds.  Every await on the backing store is  *)
(* one step of the model, so handlers of concurrent requests interleave at *)
(* exactly the places where the event loop can switch between them.        *)
(***************************************************************************)
EXTENDS Integers, Sequences, FiniteSets, TLC

(***************************************************************************)
(* Bounds of the model.                                                    *)
(***************************************************************************)
\* the clock stops advancing here
MaxTime == 2
\* the largest ttl_seconds a request of the model asks for
MaxTtl == 2
\* requests, writes of other clients and outages in one behaviour
MaxEvents == 3
\* the largest max_wait_time and poll_interval of a workflow run, and where
\* the clock of a run stops
MaxWait == 3
MaxInterval == 2
MaxClock == 4
\* the most items of one bulk request
MaxBatch == 2
\* the requests of other clients while a workflow runs
MaxOther == 1
\* the times the lifespan of the application is entered in one process
MaxStarts == 2
\* the writes to the backing store where its writers are taken together
MaxWrites == 2

(***************************************************************************)
(* Python values: None, int, str, the ISO-8601 text of a time, and dict    *)
(* (a sequence of <<key, value>> pairs in insertion order).                *)
(***************************************************************************)
PyNone == <<"none", 0>>
PyInt(n) == <<"int", n>>
PyStr(s) == <<"str", s>>
PyIso(t) == <<"iso", t>>
PyDict(pairs) == <<"dict", pairs>>

IsDict(v) == v[1] = "dict"
IsStr(v) == v[1] \in {"str", "iso"}

RECURSIVE DictHas(_, _)
DictHas(pairs, k) ==
    IF pairs = << >> THEN FALSE
    ELSE Head(pairs)[1] = k \/ DictHas(Tail(pairs), k)

RECURSIVE DictGet(_, _)
\* d[k] for a key the dict holds
DictGet(pairs, k) ==
    IF Head(pairs)[1] = k THEN Head(pairs)[2] ELSE DictGet(Tail(pairs), k)

RECURSIVE DictSet(_, _, _)
\* d[k] = v: a key already held keeps its place and takes the new value
DictSet(pairs, k, v) ==
    IF pairs = << >> THEN << <<k, v>> >>
    ELSE IF Head(pairs)[1] = k THEN << <<k, v>> >> \o Tail(pairs)
    ELSE << Head(pairs) >> \o DictSet(Tail(pairs), k, v)

(***************************************************************************)
(* json.dumps and json.loads, over texts represented as token sequences.   *)
(***************************************************************************)
LBrace == <<"p", "{">>
RBrace == <<"p", "}">>
Colon == <<"p", ":">>
Comma == <<"p", ",">>
NullTok == <<"k", "null">>

RECURSIVE json_dumps(_)
RECURSIVE DumpPairs(_)
DumpPairs(pairs) ==
    IF pairs = << >> THEN << >>
    ELSE << <<"s", Head(pairs)[1]>>, Colon >> \o json_dumps(Head(pairs)[2])
         \o (IF Tail(pairs) = << >> THEN << >>
             ELSE << Comma >> \o DumpPairs(Tail(pairs)))

json_dumps(v) ==
    CASE v[1] = "none" -> << NullTok >>
      [] v[1] = "int" -> << <<"n", v[2]>> >>
      [] v[1] = "str" -> << <<"s", v[2]>> >>
      [] v[1] = "iso" -> << <<"t", v[2]>> >>
      [] v[1] = "dict" -> << LBrace >> \o DumpPairs(v[2]) \o << RBrace >>

ParseFail == [ok |-> FALSE, val |-> PyNone, next |-> 0]

RECURSIVE ParseValue(_, _)
RECURSIVE ParseMembers(_, _, _)
\* the members of an object from token i on, after "{" or ","
ParseMembers(toks, i, acc) ==
    IF i + 1 > Len(toks) \/ toks[i][1] # "s" \/ toks[i + 1] # Colon THEN ParseFail
    ELSE LET r == ParseValue(toks, i + 2) IN
         IF ~r.ok \/ r.next > Len(toks) THEN ParseFail
         ELSE LET acc2 == DictSet(acc, toks[i][2], r.val) IN
              IF toks[r.next] = RBrace
              THEN [ok |-> TRUE, val |-> PyDict(acc2), next |-> r.next + 1]
              ELSE IF toks[r.next] = Comma
              THEN ParseMembers(toks, r.next + 1, acc2)
              ELSE ParseFail

ParseValue(toks, i) ==
    IF i > Len(toks) THEN ParseFail
    ELSE LET tok == toks[i] IN
         CASE tok = NullTok -> [ok |-> TRUE, val |-> PyNone, next |-> i + 1]
           [] tok[1] = "n" -> [ok |-> TRUE, val |-> PyInt(tok[2]), next |-> i + 1]
           [] tok[1] = "s" -> [ok |-> TRUE, val |-> PyStr(tok[2]), next |-> i + 1]
           [] tok[1] = "t" -> [ok |-> TRUE, val |-> PyIso(tok[2]), next |-> i + 1]
           [] tok = LBrace ->
                IF i + 1 <= Len(toks) /\ toks[i + 1] = RBrace
                THEN [ok |-> TRUE, val |-> PyDict(<< >>), next |-> i + 2]
                ELSE ParseMembers(toks, i + 1, << >>)
           [] OTHER -> ParseFail

\* json.loads: ok is FALSE where the code gets a JSONDecodeError
json_loads(toks) ==
    LET r == ParseValue(toks, 1) IN
    IF r.ok /\ r.next = Len(toks) + 1 THEN r ELSE ParseFail

(***************************************************************************)
(* More Python values: bool, a cache key used as a str, a message (a       *)
(* sequence of text segments) and a list.  A cache key is a sequence of    *)
(* text segments, so that concatenating keys is \o.                        *)
(***************************************************************************)
PyBool(b) == <<"bool", b>>
PyKey(k) == <<"key", k>>
PyText(segs) == <<"text", segs>>
PyList(xs) == <<"list", xs>>

\* dict.get(k): None for a key the dict does not hold
PyGet(d, k) == IF DictHas(d[2], k) THEN DictGet(d[2], k) ELSE PyNone

K1 == <<"k1">>
K2 == <<"k2">>
\* accountnumber + "-" + clientid of the workflow payload
accountnumber == <<"20000000">>
clientid == <<"12345678">>
CompositeKey == accountnumber \o <<"-">> \o clientid
ClientKeys == {K1, K2}
Keys == ClientKeys \cup {CompositeKey}

\* the payloads clients store
DataA == PyDict(<< <<"a", PyInt(1)>> >>)
DataB == PyDict(<< <<"a", PyInt(2)>>, <<"b", PyDict(<< >>)>> >>)
DataValues == {DataA, DataB}

\* ttl_seconds: Optional[int]
TtlValues == {PyInt(n) : n \in 0..MaxTtl}

Reqs == {"r1", "r2"}

VARIABLES
    now,          \* the wall clock, in seconds
    redis,        \* the backing store: key -> entry
    reachable,    \* whether the backing store answers
    config_ok,    \* whether REDIS_HOST and REDIS_PORT give a URL from_url accepts
    redis_pool,   \* the module global of core/cache.py
    req,          \* the requests in the service: slot -> handler state
    last,         \* the request answered last, with its response
    events,       \* requests, foreign writes and outages so far
    wf,           \* the run of run_workflow_with_cache
    job,          \* the external workflow job
    app           \* the process of the service: its lifespan and its pool's connections

vars == <<now, redis, reachable, config_ok, redis_pool, req, last, events, wf, job, app>>

(***************************************************************************)
(* The backing store.  An entry keeps, beside the value and the expiry,    *)
(* a record w of the last write to the key (history, read by no handler).  *)
(***************************************************************************)
NoExpiry == -1
KeyAbsent == -2

NoWrite ==
    [by |-> "none", data |-> PyNone, cached_at |-> PyNone, ttl |-> 0, at |-> 0,
     batch |-> << >>, deleted |-> FALSE]
NoEntry == [present |-> FALSE, value |-> << >>, expireAt |-> NoExpiry, w |-> NoWrite]

Live(e, t) == e.present /\ (e.expireAt = NoExpiry \/ t < e.expireAt)

\* GET: nil for a key that is absent or has expired
RedisGet(store, k, t) ==
    IF Live(store[k], t) THEN [nil |-> FALSE, value |-> store[k].value]
    ELSE [nil |-> TRUE, value |-> << >>]

\* EXISTS: the number of keys that exist
RedisExists(store, k, t) == IF Live(store[k], t) THEN 1 ELSE 0

\* TTL: -2 for no key, -1 for a key without expiry, else the seconds left
RedisTtl(store, k, t) ==
    IF ~Live(store[k], t) THEN KeyAbsent
    ELSE IF store[k].expireAt = NoExpiry THEN NoExpiry
    ELSE store[k].expireAt - t

\* mutant: any time is taken
SetexAccepts_Any(time) == TRUE

\* SETEX refuses a time that is no positive integer
SetexAccepts(time) == time[1] = "int" /\ time[2] > 0

\* mutant: a key that is there keeps the expiry it has
RedisSetex_KeepExpiry(store, k, time, value, t, w) ==
    [store EXCEPT ![k] =
        [present |-> TRUE, value |-> value,
         expireAt |-> IF Live(store[k], t) THEN store[k].expireAt ELSE t + time[2],
         w |-> w]]

\* SETEX name time value: value and expiry are set together
RedisSetex(store, k, time, value, t, w) ==
    [store EXCEPT ![k] =
        [present |-> TRUE, value |-> value, expireAt |-> t + time[2], w |-> w]]

\* DEL: the number of keys removed
RedisDelete(store, k, t) ==
    [count |-> IF Live(store[k], t) THEN 1 ELSE 0,
     store |-> [store EXCEPT ![k] =
                  [present |-> FALSE, value |-> << >>, expireAt |-> NoExpiry,
                   w |-> [store[k].w EXCEPT !.deleted = TRUE]]]]

(***************************************************************************)
(* Exceptions and HTTP responses.                                          *)
(***************************************************************************)
Exc(type, text) == [type |-> type, status |-> 0, text |-> text]
HTTPException(status_code, detail) ==
    [type |-> "HTTPException", status |-> status_code, text |-> detail]

StatusText(n) == CASE n = 404 -> "404: " [] n = 500 -> "500: " [] OTHER -> "?: "

\* str(e): status and detail for an HTTPException, else the message
StrOf(e) == IF e.type = "HTTPException" THEN <<StatusText(e.status)>> \o e.text ELSE e.text

\* mutant: str(e) of an HTTPException without its detail
NotFoundIn_NoDetail(text) == FALSE

\* "not found" in str(e)
NotFoundIn(text) ==
    \E i \in DOMAIN text : text[i] \in {"' not found", "' not found in cache"}

NoResp == [status |-> 0, body |-> PyNone]
Ok200(body) == [status |-> 200, body |-> body]

\* what the framework answers when e leaves the handler
Raised(e) ==
    IF e.type = "HTTPException"
    THEN [status |-> e.status, body |-> PyDict(<< <<"detail", PyText(e.text)>> >>)]
    ELSE [status |-> 500, body |-> PyText(<<"Internal Server Error">>)]

ConnectionError == Exc("ConnectionError", <<"Error connecting to the backing store">>)
ConfigError == Exc("ValueError", <<"Port could not be cast to integer value">>)
ResponseError == Exc("ResponseError", <<"invalid expire time in 'setex' command">>)
DataError == Exc("DataError", <<"Invalid input of type: 'NoneType'">>)
KeyError == Exc("KeyError", <<"'data'">>)
TypeError == Exc("TypeError", <<"object is not subscriptable">>)
ValidationError == Exc("ValidationError", <<"validation error for CacheResponse">>)

(***************************************************************************)
(* core/cache.py                                                           *)
(***************************************************************************)
\* get_redis_connection: the pool is built on the first call; a URL that
\* from_url refuses raises and leaves the global None
\* ConnectionPool.from_url builds an object that is none of those built before
from_url(pool) == IF pool = "None" THEN "pool" ELSE "pool2"

\* mutant: the pool is built at every call
get_redis_connection_Unguarded(pool, cfg) ==
    IF cfg THEN [ok |-> TRUE, pool |-> from_url(pool)] ELSE [ok |-> FALSE, pool |-> pool]

get_redis_connection(pool, cfg) ==
    IF pool = "None"
    THEN IF cfg THEN [ok |-> TRUE, pool |-> from_url(pool)] ELSE [ok |-> FALSE, pool |-> "None"]
    ELSE [ok |-> TRUE, pool |-> pool]

\* max_connections of the pool
max_connections == 20

\* the process between its lifespan's startup and shutdown, with no connection
\* of the pool taken by the operations the model does not follow one by one.
\* conn is the pool of the lifespan's redis_conn, disconnected the pools
\* that were torn down, starts the times the lifespan was entered.
Serving ==
    [phase |-> "running", in_use |-> 0, conn |-> "None", disconnected |-> {}, starts |-> 0]

(***************************************************************************)
(* Requests.  pool is the pool of the request's redis_conn.  seen and fin   *)
(* are history, read by no handler: what the                               *)
(* request's first command met at the backing store, and what the store    *)
(* held when the response was built (with the answer of the ttl query,     *)
(* where one was made).                                                    *)
(***************************************************************************)
NoSeen == [up |-> FALSE, live |-> FALSE, w |-> NoWrite, at |-> 0]
NoFin == [up |-> FALSE, w |-> NoWrite, at |-> 0, asked |-> FALSE, ttl |-> 0]
IdleReq ==
    [op |-> "none", pc |-> "idle", key |-> << >>, items |-> << >>,
     cached_entry |-> PyNone, resp |-> NoResp, pool |-> "None",
     seen |-> NoSeen, fin |-> NoFin]

\* the connections of the pool that are taken: a request holds one while a
\* command of it is with the backing store
InUse == app.in_use + Cardinality({r \in Reqs : req[r].pc # "idle"})

\* ConnectionPool (not BlockingConnectionPool) hands out no connection beyond
\* max_connections and raises at once
Saturated == InUse >= max_connections
TooManyConnections == Exc("ConnectionError", <<"Too many connections">>)

\* the first command of a request gets a connection and reaches the backing
\* store, or what it raises
Connected == reachable /\ ~Saturated
ConnectFailure == IF Saturated THEN TooManyConnections ELSE ConnectionError

\* a slot takes the next request; of two free slots the first is used
Free(r) ==
    /\ app.phase = "running"
    /\ req[r].pc = "idle"
    /\ events < MaxEvents
    /\ r = "r1" \/ req["r1"].pc # "idle"

Done(r, response) == [req[r] EXCEPT !.pc = "done", !.resp = response]

\* the handler of slot r goes on to nxt: a response leaves the service and
\* frees the slot
Commit(r, nxt) ==
    LET asked == req[r].pc = "ttl" /\ reachable
        fin == [up |-> reachable,
                w |-> IF nxt.key \in Keys THEN redis[nxt.key].w ELSE NoWrite,
                at |-> now,
                asked |-> asked,
                ttl |-> IF asked THEN RedisTtl(redis, nxt.key, now) ELSE 0]
        \* the handler's first step took its redis_conn from get_redis_connection
        bound == IF req[r].pc = "idle" THEN [nxt EXCEPT !.pool = redis_pool'] ELSE nxt
    IN
    IF nxt.pc = "done"
    THEN req' = [req EXCEPT ![r] = IdleReq] /\ last' = [bound EXCEPT !.fin = fin]
    ELSE req' = [req EXCEPT ![r] = bound] /\ UNCHANGED last

\* cache_entry and cache_value of one item, built at time t
cache_entry(item, t) ==
    PyDict(<< <<"data", item.data>>,
              <<"cached_at", PyIso(t)>>,
              <<"original_ttl", item.ttl_seconds>> >>)

Prepared(item, t) ==
    [key |-> item.key, data |-> item.data, ttl_seconds |-> item.ttl_seconds,
     cached_at |-> PyGet(cache_entry(item, t), "cached_at"),
     cache_value |-> json_dumps(cache_entry(item, t))]

\* the history record of a write of a prepared item
WriteOf(by, it, t, batch) ==
    [by |-> by, data |-> it.data, cached_at |-> it.cached_at, ttl |-> it.ttl_seconds[2],
     at |-> t, batch |-> batch, deleted |-> FALSE]

Items == [key : ClientKeys, data : DataValues, ttl_seconds : TtlValues]

(***************************************************************************)
(* POST /cache                                                             *)
(***************************************************************************)
StoreFailed(e) ==
    Raised(HTTPException(500, <<"Failed to store in cache: ">> \o StrOf(e)))

StoreResponse(it) ==
    Ok200(PyDict(<< <<"success", PyBool(TRUE)>>,
                    <<"message", PyText(<<"Stored '">> \o it.key \o <<"' in cache">>)>>,
                    <<"key", PyKey(it.key)>>,
                    <<"ttl_seconds", it.ttl_seconds>>,
                    <<"cached_at", it.cached_at>> >>))

\* store_in_cache up to the await of setex, which takes a connection of the pool
store_in_cache(r, item) ==
    LET c == get_redis_connection(redis_pool, config_ok) IN
    /\ redis_pool' = c.pool
    /\ Commit(r, IF ~c.ok
                 THEN [IdleReq EXCEPT !.op = "store", !.pc = "done", !.key = item.key,
                                      !.resp = StoreFailed(ConfigError)]
                 ELSE IF Saturated
                 THEN [IdleReq EXCEPT !.op = "store", !.pc = "done", !.key = item.key,
                                      !.resp = StoreFailed(TooManyConnections)]
                 ELSE [IdleReq EXCEPT !.op = "store", !.pc = "setex", !.key = item.key,
                                      !.items = << Prepared(item, now) >>])

\* setex answers: the entry is written, or the command fails
store_setex(r) ==
    LET it == req[r].items[1] IN
    IF ~reachable
    THEN /\ Commit(r, Done(r, StoreFailed(ConnectionError)))
         /\ UNCHANGED redis
    ELSE IF ~SetexAccepts(it.ttl_seconds)
    THEN /\ Commit(r, Done(r, StoreFailed(IF it.ttl_seconds = PyNone
                                          THEN DataError ELSE ResponseError)))
         /\ UNCHANGED redis
    ELSE /\ redis' = RedisSetex(redis, it.key, it.ttl_seconds, it.cache_value, now,
                                WriteOf("store", it, now, << >>))
         /\ Commit(r, Done(r, StoreResponse(it)))

StoreInCache(r) ==
    /\ Free(r)
    /\ \E item \in Items : store_in_cache(r, item)
    /\ events' = events + 1
    /\ UNCHANGED <<app, now, redis, reachable, config_ok, wf, job>>

\* a store whose ttl_seconds is null (ttl_seconds: Optional[int])
StoreNullTtl(r) ==
    /\ Free(r)
    /\ \E key \in ClientKeys, data \in DataValues :
          store_in_cache(r, [key |-> key, data |-> data, ttl_seconds |-> PyNone])
    /\ events' = events + 1
    /\ UNCHANGED <<app, now, redis, reachable, config_ok, wf, job>>

StoreSetex(r) ==
    /\ req[r].op = "store" /\ req[r].pc = "setex"
    /\ store_setex(r)
    /\ UNCHANGED <<app, now, reachable, config_ok, redis_pool, events, wf, job>>

(***************************************************************************)
(* GET /cache/{key}                                                        *)
(***************************************************************************)
GetFailed(e) ==
    IF e.type = "JSONDecodeError"
    THEN Raised(HTTPException(500, <<"Invalid JSON data in cache">>))
    ELSE IF NotFoundIn(StrOf(e)) THEN Raised(e)
    ELSE Raised(HTTPException(500, <<"Failed to retrieve from cache: ">> \o StrOf(e)))

KeyNotFound(key) == HTTPException(404, <<"Key '">> \o key \o <<"' not found">>)

\* mutant: the sentinel is passed on
ttl_remaining_Raw(ttl) == PyInt(ttl)

\* ttl_remaining of the response: -1 becomes None
ttl_remaining(ttl) == IF ttl = NoExpiry THEN PyNone ELSE PyInt(ttl)

\* mutant: the envelope is returned as the data
CacheResponse_Envelope(key, cached_entry, ttl) ==
    Ok200(PyDict(<< <<"key", PyKey(key)>>,
                    <<"data", cached_entry>>,
                    <<"cached_at", PyGet(cached_entry, "cached_at")>>,
                    <<"ttl_remaining", ttl_remaining(ttl)>> >>))

\* CacheResponse(key, data, cached_at, ttl_remaining), or what building it raises
CacheResponse(key, cached_entry, ttl) ==
    IF ~IsDict(cached_entry) THEN GetFailed(TypeError)
    ELSE IF ~DictHas(cached_entry[2], "data") \/ ~DictHas(cached_entry[2], "cached_at")
    THEN GetFailed(KeyError)
    ELSE IF ~IsDict(PyGet(cached_entry, "data")) \/ ~IsStr(PyGet(cached_entry, "cached_at"))
    THEN GetFailed(ValidationError)
    ELSE Ok200(PyDict(<< <<"key", PyKey(key)>>,
                         <<"data", PyGet(cached_entry, "data")>>,
                         <<"cached_at", PyGet(cached_entry, "cached_at")>>,
                         <<"ttl_remaining", ttl_remaining(ttl)>> >>))

\* get_from_cache up to the await of ttl
get_from_cache(r, key) ==
    LET c == get_redis_connection(redis_pool, config_ok)
        got == RedisGet(redis, key, now)
        loaded == json_loads(got.value)
        start == [IdleReq EXCEPT !.op = "get", !.key = key,
                                 !.seen = [up |-> c.ok /\ Connected,
                                           live |-> Live(redis[key], now) /\ c.ok /\ Connected,
                                           w |-> redis[key].w, at |-> now]]
    IN
    /\ redis_pool' = c.pool
    /\ Commit(r, IF ~c.ok THEN [start EXCEPT !.pc = "done", !.resp = GetFailed(ConfigError)]
                 ELSE IF ~Connected
                 THEN [start EXCEPT !.pc = "done", !.resp = GetFailed(ConnectFailure)]
                 ELSE IF got.nil
                 THEN [start EXCEPT !.pc = "done", !.resp = GetFailed(KeyNotFound(key))]
                 ELSE IF ~loaded.ok
                 THEN [start EXCEPT !.pc = "done",
                                    !.resp = GetFailed(Exc("JSONDecodeError", <<"Expecting value">>))]
                 ELSE [start EXCEPT !.pc = "ttl", !.cached_entry = loaded.val])

\* ttl answers and the response is built
get_ttl(r) ==
    IF ~reachable THEN Done(r, GetFailed(ConnectionError))
    ELSE Done(r, CacheResponse(req[r].key, req[r].cached_entry,
                               RedisTtl(redis, req[r].key, now)))

GetFromCache(r) ==
    /\ Free(r)
    /\ \E key \in ClientKeys : get_from_cache(r, key)
    /\ events' = events + 1
    /\ UNCHANGED <<app, now, redis, reachable, config_ok, wf, job>>

GetTtl(r) ==
    /\ req[r].op = "get" /\ req[r].pc = "ttl"
    /\ Commit(r, get_ttl(r))
    /\ UNCHANGED <<app, now, redis, reachable, config_ok, redis_pool, events, wf, job>>

(***************************************************************************)
(* DELETE /cache/{key}                                                     *)
(***************************************************************************)
DeleteFailed(e) ==
    IF NotFoundIn(StrOf(e)) THEN Raised(e)
    ELSE Raised(HTTPException(500, <<"Failed to delete from cache: ">> \o StrOf(e)))

\* mutant: deleting an absent key succeeds
DeleteResponse_Idempotent(key, deleted_count) ==
    Ok200(PyDict(<< <<"success", PyBool(TRUE)>>,
                    <<"message", PyText(<<"Deleted '">> \o key \o <<"' from cache">>)>> >>))

DeleteResponse(key, deleted_count) ==
    IF deleted_count = 0
    THEN DeleteFailed(HTTPException(404, <<"Key '">> \o key \o <<"' not found in cache">>))
    ELSE Ok200(PyDict(<< <<"success", PyBool(TRUE)>>,
                         <<"message", PyText(<<"Deleted '">> \o key \o <<"' from cache">>)>> >>))

\* delete_from_cache: one command of the backing store
delete_from_cache(r, key) ==
    LET c == get_redis_connection(redis_pool, config_ok)
        del == RedisDelete(redis, key, now)
        start == [IdleReq EXCEPT !.op = "delete", !.key = key, !.pc = "done",
                                 !.seen = [up |-> c.ok /\ Connected,
                                           live |-> Live(redis[key], now) /\ c.ok /\ Connected,
                                           w |-> redis[key].w, at |-> now]]
    IN
    /\ redis_pool' = c.pool
    /\ IF ~c.ok
       THEN /\ Commit(r, [start EXCEPT !.resp = DeleteFailed(ConfigError)])
            /\ UNCHANGED redis
       ELSE IF ~Connected
       THEN /\ Commit(r, [start EXCEPT !.resp = DeleteFailed(ConnectFailure)])
            /\ UNCHANGED redis
       ELSE /\ Commit(r, [start EXCEPT !.resp = DeleteResponse(key, del.count)])
            /\ redis' = IF del.count = 0 THEN redis ELSE del.store

DeleteFromCache(r) ==
    /\ Free(r)
    /\ \E key \in ClientKeys : delete_from_cache(r, key)
    /\ events' = events + 1
    /\ UNCHANGED <<app, now, reachable, config_ok, wf, job>>

(***************************************************************************)
(* GET /cache/{key}/exists                                                 *)
(***************************************************************************)
ExistsFailed(e) ==
    Raised(HTTPException(500, <<"Failed to check key existence: ">> \o StrOf(e)))

\* mutant: the ttl is reported whether or not the key exists
ExistsResult_AlwaysTtl(key, exists) ==
    PyDict(<< <<"key", PyKey(key)>>, <<"exists", PyBool(exists # 0)>>,
              <<"ttl_remaining", PyInt(KeyAbsent)>> >>)

\* the result dict before and after the ttl query
ExistsResult(key, exists) ==
    PyDict(<< <<"key", PyKey(key)>>, <<"exists", PyBool(exists # 0)>> >>)
ExistsResultTtl(key, exists, ttl) ==
    PyDict(DictSet(ExistsResult(key, exists)[2], "ttl_remaining",
                   IF ttl # NoExpiry THEN PyInt(ttl) ELSE PyNone))

\* check_key_exists up to the await of ttl
check_key_exists(r, key) ==
    LET c == get_redis_connection(redis_pool, config_ok)
        exists == RedisExists(redis, key, now)
        start == [IdleReq EXCEPT !.op = "exists", !.key = key,
                                 !.seen = [up |-> c.ok /\ Connected,
                                           live |-> Live(redis[key], now) /\ c.ok /\ Connected,
                                           w |-> redis[key].w, at |-> now]]
    IN
    /\ redis_pool' = c.pool
    /\ Commit(r, IF ~c.ok THEN [start EXCEPT !.pc = "done", !.resp = ExistsFailed(ConfigError)]
                 ELSE IF ~Connected
                 THEN [start EXCEPT !.pc = "done", !.resp = ExistsFailed(ConnectFailure)]
                 ELSE IF exists = 0
                 THEN [start EXCEPT !.pc = "done", !.resp = Ok200(ExistsResult(key, exists))]
                 ELSE [start EXCEPT !.pc = "ttl"])

exists_ttl(r) ==
    IF ~reachable THEN Done(r, ExistsFailed(ConnectionError))
    ELSE Done(r, Ok200(ExistsResultTtl(req[r].key, 1, RedisTtl(redis, req[r].key, now))))

CheckKeyExists(r) ==
    /\ Free(r)
    /\ \E key \in ClientKeys : check_key_exists(r, key)
    /\ events' = events + 1
    /\ UNCHANGED <<app, now, redis, reachable, config_ok, wf, job>>

ExistsTtl(r) ==
    /\ req[r].op = "exists" /\ req[r].pc = "ttl"
    /\ Commit(r, exists_ttl(r))
    /\ UNCHANGED <<app, now, redis, reachable, config_ok, redis_pool, events, wf, job>>

(***************************************************************************)
(* POST /cache/bulk                                                        *)
(***************************************************************************)
BulkItems ==
    {[key |-> K1, data |-> DataA, ttl_seconds |-> PyInt(MaxTtl)],
     [key |-> K1, data |-> DataB, ttl_seconds |-> PyInt(MaxTtl)],
     [key |-> K2, data |-> DataA, ttl_seconds |-> PyInt(MaxTtl)],
     [key |-> K2, data |-> DataB, ttl_seconds |-> PyInt(0)]}
Batches == UNION {[1..n -> BulkItems] : n \in 0..MaxBatch}

BulkFailed(e) ==
    Raised(HTTPException(500, <<"Failed to store bulk items: ">> \o StrOf(e)))

\* stored_keys
StoredKeys(items) == [i \in DOMAIN items |-> PyKey(items[i].key)]

BulkResponse(items) ==
    Ok200(PyDict(<< <<"success", PyBool(TRUE)>>,
                    <<"message", PyText(<<"Stored items in cache">>)>>,
                    <<"keys", PyList(StoredKeys(items))>> >>))

\* the <<key, data>> pairs of a batch, for the history record
BatchOf(items) == [i \in DOMAIN items |-> <<items[i].key, items[i].data>>]

RECURSIVE ExecPipeline_Reverse(_, _, _, _)
\* mutant: the queued commands are applied last to first
ExecPipeline_Reverse(store, items, i, by) ==
    IF i > Len(items) THEN store
    ELSE LET rest == ExecPipeline_Reverse(store, items, i + 1, by) IN
         IF SetexAccepts(items[i].ttl_seconds)
         THEN RedisSetex(rest, items[i].key, items[i].ttl_seconds,
                         items[i].cache_value, now,
                         WriteOf(by, items[i], now, BatchOf(items)))
         ELSE rest

RECURSIVE ExecPipeline_Atomic(_, _, _, _)
\* mutant: a command the backing store refuses discards the whole batch
ExecPipeline_Atomic(store, items, i, by) ==
    IF i > Len(items) \/ \E j \in DOMAIN items : ~SetexAccepts(items[j].ttl_seconds)
    THEN store
    ELSE ExecPipeline_Atomic(
            RedisSetex(store, items[i].key, items[i].ttl_seconds,
                       items[i].cache_value, now,
                       WriteOf(by, items[i], now, BatchOf(items))),
            items, i + 1, by)

RECURSIVE ExecPipeline(_, _, _, _)
\* the queued SETEX commands run in order inside one MULTI/EXEC (pipeline() is
\* transactional by default); one a command refuses does not stop the next
ExecPipeline(store, items, i, by) ==
    IF i > Len(items) THEN store
    ELSE ExecPipeline(
            IF SetexAccepts(items[i].ttl_seconds)
            THEN RedisSetex(store, items[i].key, items[i].ttl_seconds,
                            items[i].cache_value, now,
                            WriteOf(by, items[i], now, BatchOf(items)))
            ELSE store,
            items, i + 1, by)

AllAccepted(items) == \A i \in DOMAIN items : SetexAccepts(items[i].ttl_seconds)

\* store_bulk_in_cache up to the await of pipe.execute()
store_bulk_in_cache(r, items) ==
    LET c == get_redis_connection(redis_pool, config_ok) IN
    /\ redis_pool' = c.pool
    /\ Commit(r, IF ~c.ok
                 THEN [IdleReq EXCEPT !.op = "bulk", !.pc = "done",
                                      !.resp = BulkFailed(ConfigError)]
                 ELSE IF items # << >> /\ Saturated
                 THEN [IdleReq EXCEPT !.op = "bulk", !.pc = "done",
                                      !.resp = BulkFailed(TooManyConnections)]
                 ELSE [IdleReq EXCEPT !.op = "bulk", !.pc = "execute",
                                      !.items = [i \in DOMAIN items |-> Prepared(items[i], now)]])

\* pipe.execute() answers
bulk_execute(r) ==
    LET items == req[r].items IN
    IF items = << >>
    THEN /\ Commit(r, Done(r, BulkResponse(items)))
         /\ UNCHANGED redis
    ELSE IF ~reachable
    THEN /\ Commit(r, Done(r, BulkFailed(ConnectionError)))
         /\ UNCHANGED redis
    ELSE IF ~AllAccepted(items)
    THEN /\ Commit(r, Done(r, BulkFailed(ResponseError)))
         /\ redis' = ExecPipeline(redis, items, 1, "bulk_failed")
    ELSE /\ Commit(r, Done(r, BulkResponse(items)))
         /\ redis' = ExecPipeline(redis, items, 1, "bulk")

StoreBulkInCache(r) ==
    /\ Free(r)
    /\ \E items \in Batches : store_bulk_in_cache(r, items)
    /\ events' = events + 1
    /\ UNCHANGED <<app, now, redis, reachable, config_ok, wf, job>>

BulkExecute(r) ==
    /\ req[r].op = "bulk" /\ req[r].pc = "execute"
    /\ bulk_execute(r)
    /\ UNCHANGED <<app, now, reachable, config_ok, redis_pool, events, wf, job>>

(***************************************************************************)
(* GET /health                                                             *)
(***************************************************************************)
Healthy(t) ==
    PyDict(<< <<"status", PyStr("healthy")>>,
              <<"redis", PyStr("connected")>>,
              <<"version", PyStr("1.0.0")>>,
              <<"timestamp", PyIso(t)>> >>)

Unhealthy(e, t) ==
    PyDict(<< <<"status", PyStr("unhealthy")>>,
              <<"redis", PyStr("disconnected")>>,
              <<"error", PyText(StrOf(e))>>,
              <<"version", PyStr("1.0.0")>>,
              <<"timestamp", PyIso(t)>> >>)

\* mutant: the connection is obtained outside the try
HealthResponse_Unguarded(conn_ok, ping_ok, t) ==
    IF ~conn_ok THEN Raised(ConfigError)
    ELSE IF ~ping_ok THEN Ok200(Unhealthy(ConnectFailure, t))
    ELSE Ok200(Healthy(t))

\* the response of health_check: ping answered or something was raised
HealthResponse(conn_ok, ping_ok, t) ==
    IF ~conn_ok THEN Ok200(Unhealthy(ConfigError, t))
    ELSE IF ~ping_ok THEN Ok200(Unhealthy(ConnectFailure, t))
    ELSE Ok200(Healthy(t))

health_check(r) ==
    LET c == get_redis_connection(redis_pool, config_ok) IN
    /\ redis_pool' = c.pool
    /\ Commit(r, [IdleReq EXCEPT !.op = "health", !.pc = "done",
                                 !.seen = [NoSeen EXCEPT !.up = c.ok /\ Connected, !.at = now],
                                 !.resp = HealthResponse(c.ok, Connected, now)])

HealthCheck(r) ==
    /\ Free(r)
    /\ health_check(r)
    /\ events' = events + 1
    /\ UNCHANGED <<app, now, redis, reachable, config_ok, wf, job>>

(***************************************************************************)
(* The environment of the service: the clock, the backing store's          *)
(* availability, and the other writers of the shared store.                *)
(***************************************************************************)
Tick ==
    /\ now < MaxTime
    /\ now' = now + 1
    /\ UNCHANGED <<app, redis, reachable, config_ok, redis_pool, req, last, events, wf, job>>

StoreGoesDown ==
    /\ reachable
    /\ events < MaxEvents
    /\ events' = events + 1
    /\ reachable' = FALSE
    /\ UNCHANGED <<app, now, redis, config_ok, redis_pool, req, last, wf, job>>

StoreComesBack ==
    /\ ~reachable
    /\ reachable' = TRUE
    /\ UNCHANGED <<app, now, redis, config_ok, redis_pool, req, last, events, wf, job>>

\* values another writer leaves under a key: an envelope, a JSON object that is
\* no envelope, and a text that is no JSON
ForeignEnvelope ==
    PyDict(<< <<"data", DataA>>, <<"cached_at", PyIso(0)>>, <<"original_ttl", PyNone>> >>)
ForeignValues == {json_dumps(ForeignEnvelope), <<LBrace, RBrace>>, <<LBrace>>}

\* SET without expiry by another client of the store: the key has ttl -1
ForeignSet ==
    /\ reachable
    /\ events < MaxEvents
    /\ events' = events + 1
    /\ \E k \in ClientKeys, v \in ForeignValues :
          redis' = [redis EXCEPT ![k] =
                      [present |-> TRUE, value |-> v, expireAt |-> NoExpiry,
                       w |-> [NoWrite EXCEPT !.by = "foreign", !.at = now]]]
    /\ UNCHANGED <<app, now, reachable, config_ok, redis_pool, req, last, wf, job>>

(***************************************************************************)
(* core/cache.py: the lifespan of the application, and the connections of  *)
(* the pool taken by the rest of the process's operations.                 *)
(***************************************************************************)
\* lifespan up to its yield: the connection is made, or the exception of
\* get_redis_connection is raised again and startup fails
Startup ==
    /\ app.phase \in {"starting", "stopped"}
    /\ app.starts < MaxStarts
    /\ LET c == get_redis_connection(redis_pool, config_ok) IN
       /\ redis_pool' = c.pool
       /\ app' = [app EXCEPT !.phase = IF c.ok THEN "running" ELSE "failed",
                              !.conn = IF c.ok THEN c.pool ELSE "None",
                              !.starts = app.starts + 1]
    /\ UNCHANGED <<now, redis, reachable, config_ok, req, last, events, wf, job>>

\* lifespan after its yield, entered when the server has finished its
\* requests: the pool the global refers to is disconnected, and the global
\* keeps referring to it
Shutdown ==
    /\ app.phase = "running"
    /\ InUse = 0
    /\ app' = [app EXCEPT !.phase = "stopped", !.conn = "None",
                          !.disconnected = IF redis_pool # "None"
                                           THEN app.disconnected \cup {redis_pool}
                                           ELSE app.disconnected]
    /\ UNCHANGED <<now, redis, reachable, config_ok, redis_pool, req, last, events, wf, job>>

\* another operation of the process sends a command on a connection of the pool
OtherAcquire ==
    /\ app.phase = "running"
    /\ redis_pool # "None"
    /\ ~Saturated
    /\ app' = [app EXCEPT !.in_use = app.in_use + 1]
    /\ UNCHANGED <<now, redis, reachable, config_ok, redis_pool, req, last, events, wf, job>>

\* its command is answered and the connection goes back to the pool
OtherRelease ==
    /\ app.in_use > 0
    /\ app' = [app EXCEPT !.in_use = app.in_use - 1]
    /\ UNCHANGED <<now, redis, reachable, config_ok, redis_pool, req, last, events, wf, job>>

(***************************************************************************)
(* The workflow run and the job (idle in the service's specification).     *)
(***************************************************************************)
WfIdle == [pc |-> "idle"]
JobIdle == [pc |-> "idle"]

(***************************************************************************)
(* The cache service under concurrent clients.                             *)
(***************************************************************************)
Init ==
    /\ now = 0
    /\ redis = [k \in Keys |-> NoEntry]
    /\ reachable = TRUE
    /\ config_ok \in BOOLEAN
    /\ redis_pool = "None"
    /\ req = [r \in Reqs |-> IdleReq]
    /\ last = IdleReq
    /\ events = 0
    /\ wf = WfIdle
    /\ job = JobIdle
    /\ app = Serving

Next ==
    \/ \E r \in Reqs : StoreInCache(r)
    \/ \E r \in Reqs : StoreSetex(r)
    \/ \E r \in Reqs : GetFromCache(r)
    \/ \E r \in Reqs : GetTtl(r)
    \/ \E r \in Reqs : DeleteFromCache(r)
    \/ \E r \in Reqs : CheckKeyExists(r)
    \/ \E r \in Reqs : ExistsTtl(r)
    \/ \E r \in Reqs : HealthCheck(r)
    \/ Tick
    \/ StoreGoesDown
    \/ StoreComesBack
    \/ ForeignSet

Spec == Init /\ [][Next]_vars

(***************************************************************************)
(* The cache service under clients that write in bulk and read back.       *)
(***************************************************************************)
NextBulk ==
    \/ \E r \in Reqs : StoreBulkInCache(r)
    \/ \E r \in Reqs : BulkExecute(r)
    \/ \E r \in Reqs : GetFromCache(r)
    \/ \E r \in Reqs : GetTtl(r)
    \/ Tick
    \/ StoreGoesDown
    \/ StoreComesBack

SpecBulk == Init /\ [][NextBulk]_vars

(***************************************************************************)
(* The writers of the backing store: stores with and without a ttl, bulk   *)
(* stores, and the other clients of the store.                             *)
(***************************************************************************)
NextExpiry ==
    \/ \E r \in Reqs : StoreInCache(r)
    \/ \E r \in Reqs : StoreNullTtl(r)
    \/ \E r \in Reqs : StoreSetex(r)
    \/ \E r \in Reqs : StoreBulkInCache(r)
    \/ \E r \in Reqs : BulkExecute(r)
    \/ Tick
    \/ ForeignSet

InitExpiry ==
    /\ now = 0
    /\ redis = [k \in Keys |-> NoEntry]
    /\ reachable = TRUE
    /\ config_ok \in BOOLEAN
    /\ redis_pool = "None"
    /\ req = [r \in Reqs |-> IdleReq]
    /\ last = IdleReq
    /\ events = MaxEvents - MaxWrites
    /\ wf = WfIdle
    /\ job = JobIdle
    /\ app = Serving

SpecExpiry == InitExpiry /\ [][NextExpiry]_vars

(***************************************************************************)
(* The process of the service: its pool under load, and its lifespan.      *)
(***************************************************************************)
InitPool ==
    /\ now = 0
    /\ redis = [k \in Keys |-> NoEntry]
    /\ reachable = TRUE
    /\ config_ok \in BOOLEAN
    /\ redis_pool = "None"
    /\ req = [r \in Reqs |-> IdleReq]
    /\ last = IdleReq
    /\ events = 0
    /\ wf = WfIdle
    /\ job = JobIdle
    /\ app \in {Serving, [Serving EXCEPT !.phase = "starting"]}

NextPool ==
    \/ Startup
    \/ Shutdown
    \/ OtherAcquire
    \/ OtherRelease
    \/ \E r \in Reqs : StoreInCache(r)
    \/ \E r \in Reqs : StoreSetex(r)
    \/ \E r \in Reqs : HealthCheck(r)

SpecPool == InitPool /\ [][NextPool]_vars

(***************************************************************************)
(* client/client.py and scripts/workflow.py: one run of                    *)
(* run_workflow_with_cache against the cache service and an external job.  *)
(* A request of the coordinator enters the service in the step that issues *)
(* it; the coordinator goes on when the response has left the service.     *)
(***************************************************************************)
\* the coordinator's requests are served on one slot of the service, those of
\* another client of the service on the other
WfSlot == "r1"
OtherSlot == "r2"

\* ttl_seconds of CacheAPIClient.store when the caller gives none (3600 s), at
\* the scale of the model
DefaultTtl == PyInt(MaxTtl)

\* the JSON body CacheAPIClient.store posts
StorePayload(key, data) == [key |-> key, data |-> data, ttl_seconds |-> DefaultTtl]

empty_data ==
    PyDict(<< <<"demographics", PyDict(<< >>)>>,
              <<"remits", PyDict(<< >>)>>,
              <<"transactions", PyDict(<< >>)>>,
              <<"claims", PyDict(<< >>)>>,
              <<"notes", PyDict(<< >>)>>,
              <<"action", PyDict(<< >>)>> >>)

\* bool(v) of an if
Truthy(v) ==
    CASE v[1] = "none" -> FALSE
      [] v[1] = "dict" -> v[2] # << >>
      [] v[1] = "bool" -> v[2]
      [] OTHER -> TRUE

\* {v} in an f-string
Format(v) ==
    CASE v[1] = "none" -> <<"None">>
      [] v[1] = "str" -> <<v[2]>>
      [] v[1] = "text" -> v[2]

\* the external job: not yet started, accepted without a status, queued,
\* running, or ended; error is the text it reports with a failure, if any
JobStates == {"idle", "PENDING", "QUEUED", "RUNNING", "COMPLETED", "FAILED", "ERROR"}
JobErrors == {PyNone, PyStr("boom")}
NoJob == [pc |-> "idle", error |-> PyNone]

\* the body of GET /runs/{run_id}
JobPayload(j) ==
    PyDict(<< <<"id", PyStr("run-1")>> >>
           \o (IF j.pc = "PENDING" THEN << >> ELSE << <<"status", PyStr(j.pc)>> >>)
           \o (IF j.error = PyNone THEN << >> ELSE << <<"error", j.error>> >>))

NoExc == Exc("none", << >>)
Exception(text) == Exc("Exception", text)
TimeoutError(text) == Exc("TimeoutError", text)

\* mutant: the failure is raised without the reported error
WorkflowFailed_Bare(error_msg) == Exception(<<"Workflow failed">>)

\* raise Exception(f"Workflow failed: {error_msg}")
WorkflowFailed(error_msg) == Exception(<<"Workflow failed: ">> \o Format(error_msg))

\* mutant: the budget is taken to end one second early
InBudget_Early(t, start_time, max_wait_time) == t - start_time < max_wait_time - 1

\* mutant: the loop is entered once more when the budget is just used up
InBudget_Late(t, start_time, max_wait_time) == t - start_time <= max_wait_time

\* the condition of the while of poll_until_complete
InBudget(t, start_time, max_wait_time) == t - start_time < max_wait_time

\* mutant: a payload without a status counts as a failure
StatusOf_DefaultFailed(status_data) ==
    IF DictHas(status_data[2], "status") THEN DictGet(status_data[2], "status")
    ELSE PyStr("FAILED")

\* status_data.get("status", "UNKNOWN")
StatusOf(status_data) ==
    IF DictHas(status_data[2], "status") THEN DictGet(status_data[2], "status")
    ELSE PyStr("UNKNOWN")

\* the if of run_workflow_with_cache that guards the placeholder
StoreEnabled(health) ==
    /\ PyGet(health, "redis_connected") = PyStr("connected")
    /\ PyGet(health, "status") = PyStr("healthy")

\* a run before its first step.  poll_until_complete is called with its
\* defaults (5 s and 3600 s), which the model draws from its bounds.
\* stores and deletes count the requests the coordinator has issued; at is the
\* clock when the run raised.
NewRun(poll_interval, max_wait_time) ==
    [pc |-> "start", then |-> "none", run_id |-> PyNone, health |-> PyNone,
     poll_interval |-> poll_interval, max_wait_time |-> max_wait_time,
     start_time |-> 0, poll_count |-> 0, wake |-> 0,
     status |-> PyNone, final_status |-> PyNone, result |-> PyNone,
     exc |-> NoExc, at |-> 0, stores |-> 0, deletes |-> 0]

\* an exception leaves run_workflow_with_cache
WfRaise(e) == [wf EXCEPT !.pc = "raised", !.exc = e, !.at = now]

\* trigger_workflow: the job starts and its id comes back, or no id comes
\* back, or the request is refused
WfTrigger ==
    /\ wf.pc = "start"
    /\ \/ /\ job' = [job EXCEPT !.pc = "PENDING"]
          /\ wf' = [wf EXCEPT !.pc = "probe", !.run_id = PyStr("run-1")]
       \/ /\ job' = [job EXCEPT !.pc = "PENDING"]
          /\ wf' = WfRaise(Exception(<<"No run_id returned from workflow trigger">>))
       \/ /\ job' = job
          /\ wf' = WfRaise(Exception(<<"Failed to trigger workflows: ", "503">>))
    /\ UNCHANGED <<app, now, redis, reachable, config_ok, redis_pool, req, last, events>>

\* cache_client.health_check()
WfHealthCheck ==
    /\ wf.pc = "probe"
    /\ req[WfSlot].pc = "idle"
    /\ health_check(WfSlot)
    /\ wf' = [wf EXCEPT !.pc = "awaiting", !.then = "place", !.health = last'.resp.body]
    /\ UNCHANGED <<app, now, redis, reachable, config_ok, events, job>>

\* the guarded cache_client.store(key=key, data=empty_data)
WfPlaceholder ==
    /\ wf.pc = "place"
    /\ req[WfSlot].pc = "idle"
    /\ IF StoreEnabled(wf.health)
       THEN /\ store_in_cache(WfSlot, StorePayload(CompositeKey, empty_data))
            /\ wf' = [wf EXCEPT !.pc = "awaiting", !.then = "poll",
                                !.stores = wf.stores + 1]
       ELSE /\ wf' = [wf EXCEPT !.pc = "poll"]
            /\ UNCHANGED <<redis_pool, req, last>>
    /\ UNCHANGED <<app, now, redis, reachable, config_ok, events, job>>

\* the response of the cache service reaches the coordinator
WfResume ==
    /\ wf.pc = "awaiting"
    /\ req[WfSlot].pc = "idle"
    /\ wf' = [wf EXCEPT !.pc = wf.then, !.then = "none",
                        !.result = IF wf.then = "returned" THEN wf.final_status
                                   ELSE wf.result]
    /\ UNCHANGED <<app, now, redis, reachable, config_ok, redis_pool, req, last, events, job>>

\* poll_until_complete up to its while
WfPollStart ==
    /\ wf.pc = "poll"
    /\ wf' = [wf EXCEPT !.pc = "loop", !.start_time = now, !.poll_count = 0]
    /\ UNCHANGED <<app, now, redis, reachable, config_ok, redis_pool, req, last, events, job>>

\* the test of the while: another poll, or the TimeoutError after the loop
WfLoop ==
    /\ wf.pc = "loop"
    /\ wf' = IF InBudget(now, wf.start_time, wf.max_wait_time)
             THEN [wf EXCEPT !.pc = "status", !.poll_count = wf.poll_count + 1]
             ELSE WfRaise(TimeoutError(<<"Workflow did not complete within ",
                                         "max_wait_time", " secs">>))
    /\ UNCHANGED <<app, now, redis, reachable, config_ok, redis_pool, req, last, events, job>>

\* get_workflow_status and the branches on the status it reports
WfStatus ==
    /\ wf.pc = "status"
    /\ \/ wf' = WfRaise(Exception(<<"Failed to get workflow status: ", "503">>))
       \/ LET status_data == JobPayload(job)
              status == StatusOf(status_data)
          IN
          wf' = IF status = PyStr("COMPLETED")
                THEN [wf EXCEPT !.pc = "finished", !.status = status,
                                !.final_status = status_data]
                ELSE IF status = PyStr("FAILED") \/ status = PyStr("ERROR")
                THEN [WfRaise(WorkflowFailed(PyGet(status_data, "error")))
                        EXCEPT !.status = status]
                ELSE [wf EXCEPT !.pc = "sleep", !.status = status,
                                !.wake = now + wf.poll_interval]
    /\ UNCHANGED <<app, now, redis, reachable, config_ok, redis_pool, req, last, events, job>>

\* asyncio.sleep(poll_interval) is over
WfWake ==
    /\ wf.pc = "sleep"
    /\ now >= wf.wake
    /\ wf' = [wf EXCEPT !.pc = "loop"]
    /\ UNCHANGED <<app, now, redis, reachable, config_ok, redis_pool, req, last, events, job>>

\* after poll_until_complete: the guarded cache_client.delete(key=key), and
\* the return
WfAfterPoll ==
    /\ wf.pc = "finished"
    /\ req[WfSlot].pc = "idle"
    /\ IF Truthy(wf.final_status)
       THEN /\ delete_from_cache(WfSlot, CompositeKey)
            /\ wf' = [wf EXCEPT !.pc = "awaiting", !.then = "returned",
                                !.deletes = wf.deletes + 1]
       ELSE /\ wf' = [wf EXCEPT !.pc = "returned", !.result = wf.final_status]
            /\ UNCHANGED <<redis, redis_pool, req, last>>
    /\ UNCHANGED <<app, now, reachable, config_ok, events, job>>

\* the job gets on: it starts to run, and a running job ends
JobStep ==
    /\ \/ job.pc = "PENDING" /\ job' = [job EXCEPT !.pc = "QUEUED"]
       \/ job.pc = "QUEUED" /\ job' = [job EXCEPT !.pc = "RUNNING"]
       \/ job.pc = "RUNNING" /\ job' = [job EXCEPT !.pc = "COMPLETED"]
       \/ /\ job.pc = "RUNNING"
          /\ \E s \in {"FAILED", "ERROR"}, e \in JobErrors :
                job' = [job EXCEPT !.pc = s, !.error = e]
    /\ UNCHANGED <<app, now, redis, reachable, config_ok, redis_pool, req, last, events, wf>>

\* another client of the service stores under the key of the run
OtherClientStore ==
    /\ req[OtherSlot].pc = "idle"
    /\ events < MaxOther
    /\ store_in_cache(OtherSlot, StorePayload(CompositeKey, DataA))
    /\ events' = events + 1
    /\ UNCHANGED <<app, now, redis, reachable, config_ok, wf, job>>

\* the clock of a run
WfTick ==
    /\ now < MaxClock
    /\ now' = now + 1
    /\ UNCHANGED <<app, redis, reachable, config_ok, redis_pool, req, last, events, wf, job>>

\* time passes while the run sleeps
SleepPasses ==
    /\ wf.pc = "sleep"
    /\ now < wf.wake
    /\ now' = now + 1
    /\ UNCHANGED <<app, redis, reachable, config_ok, redis_pool, req, last, events, wf, job>>

InitWorkflow ==
    /\ now = 0
    /\ redis = [k \in Keys |-> NoEntry]
    /\ reachable = TRUE
    /\ config_ok \in BOOLEAN
    /\ redis_pool = "None"
    /\ req = [r \in Reqs |-> IdleReq]
    /\ last = IdleReq
    /\ events = 0
    /\ \E poll_interval \in 1..MaxInterval, max_wait_time \in 1..MaxWait :
          wf = NewRun(poll_interval, max_wait_time)
    /\ job = NoJob
    /\ app = Serving

NextWorkflow ==
    \/ WfTrigger
    \/ WfHealthCheck
    \/ WfPlaceholder
    \/ WfResume
    \/ WfPollStart
    \/ WfLoop
    \/ WfStatus
    \/ WfWake
    \/ WfAfterPoll
    \/ JobStep
    \/ OtherClientStore
    \/ \E r \in Reqs : StoreSetex(r)
    \/ WfTick

SpecWorkflow == InitWorkflow /\ [][NextWorkflow]_vars

(***************************************************************************)
(* poll_until_complete on its own, for a job that was triggered: every     *)
(* status request is answered, a sleep comes to its end and the coroutine  *)
(* is run when it can go on.                                               *)
(***************************************************************************)
InitPoll ==
    /\ now = 0
    /\ redis = [k \in Keys |-> NoEntry]
    /\ reachable = TRUE
    /\ config_ok = TRUE
    /\ redis_pool = "None"
    /\ req = [r \in Reqs |-> IdleReq]
    /\ last = IdleReq
    /\ events = 0
    /\ \E poll_interval \in 1..MaxInterval, max_wait_time \in 0..MaxWait :
          wf = [NewRun(poll_interval, max_wait_time)
                  EXCEPT !.pc = "poll", !.run_id = PyStr("run-1")]
    /\ job = [NoJob EXCEPT !.pc = "PENDING"]
    /\ app = Serving

NextPoll ==
    \/ WfPollStart
    \/ WfLoop
    \/ WfStatus
    \/ WfWake
    \/ SleepPasses
    \/ JobStep
    \/ WfTick

SpecPoll ==
    /\ InitPoll /\ [][NextPoll]_vars
    /\ WF_vars(WfPollStart) /\ WF_vars(WfLoop) /\ WF_vars(WfStatus)
    /\ WF_vars(WfWake) /\ WF_vars(SleepPasses)

(***************************************************************************)
(* Properties of the cache service.                                        *)
(***************************************************************************)
\* w is a write of this service that, at time t, has neither expired nor been
\* deleted (an overwrite replaces w)
StillStored(w, t) ==
    w.by \in {"store", "bulk", "bulk_failed"} /\ ~w.deleted /\ t < w.at + w.ttl

\* w is a write of this service whose ttl has elapsed at time t
Elapsed(w, t) ==
    w.by \in {"store", "bulk", "bulk_failed"} /\ t >= w.at + w.ttl

Answered(op) == last.op = op /\ last.pc = "done"
Body == last.resp.body

\* the backing store answered every command of the request answered last
Reached == last.seen.up /\ last.fin.up

\* C1: a successful store reports the cached_at it wrote, and every get whose
\* read of the key falls while that store's entry has neither expired nor been
\* deleted or overwritten answers 200 with exactly the stored data and that
\* cached_at, whatever reads came before (a get that cannot reach the backing
\* store answers 500).
C1_RoundTrip ==
    /\ (Answered("store") /\ last.resp.status = 200 /\ redis[last.key].w.by = "store")
          => /\ redis[last.key].w.cached_at = PyGet(Body, "cached_at")
             /\ redis[last.key].w.data = last.items[1].data
             /\ redis[last.key].w.cached_at[1] = "iso"
    /\ (Answered("get") /\ last.seen.w.by = "store"
                        /\ StillStored(last.seen.w, last.seen.at))
          => IF Reached
             THEN /\ last.resp.status = 200
                  /\ PyGet(Body, "data") = last.seen.w.data
                  /\ PyGet(Body, "cached_at") = last.seen.w.cached_at
             ELSE last.resp.status = 500

C1_Witness ==
    /\ Answered("get") /\ last.resp.status = 200
    /\ last.seen.w.by = "store" /\ StillStored(last.seen.w, last.seen.at)
    /\ last.seen.at > last.seen.w.at
    /\ PyGet(Body, "data") = DataB
    /\ events = MaxEvents

\* C2: a get of a key that was never written, or whose last store's ttl has
\* elapsed, is never answered 200: it is answered 404 (500 when the backing
\* store cannot be reached).
C2_GetNotFound ==
    (Answered("get") /\ (last.seen.w.by = "none" \/ Elapsed(last.seen.w, last.seen.at)))
       => IF last.seen.up
          THEN /\ last.resp.status = 404
               /\ Body = PyDict(<< <<"detail",
                            PyText(<<"Key '">> \o last.key \o <<"' not found">>)>> >>)
          ELSE last.resp.status = 500

C2_Witness ==
    /\ Answered("get") /\ last.resp.status = 404
    /\ last.seen.w.by = "store" /\ ~last.seen.w.deleted
    /\ last.seen.at = last.seen.w.at + last.seen.w.ttl

\* the backing store can be reached by a handler that starts now
Available == reachable /\ (config_ok \/ redis_pool # "None")

\* C3: a delete of a key that is present answers 200 and removes the key and
\* nothing else; a delete of an absent key answers 404 and leaves the store as
\* it is; a get of a key deleted and not stored again answers 404.
C3_Delete ==
    [][/\ \A r \in Reqs : DeleteFromCache(r) =>
            LET k == last'.key IN
            /\ last'.op = "delete" /\ last'.pc = "done"
            /\ (Available /\ Live(redis[k], now)) =>
                  /\ last'.resp.status = 200
                  /\ PyGet(last'.resp.body, "success") = PyBool(TRUE)
                  /\ ~Live(redis'[k], now')
                  /\ \A j \in Keys \ {k} : redis'[j] = redis[j]
            /\ (Available /\ ~Live(redis[k], now)) =>
                  /\ last'.resp.status = 404
                  /\ redis' = redis
            /\ ~Available => (last'.resp.status = 500 /\ redis' = redis)
       /\ \A r \in Reqs : (GetFromCache(r) /\ Available) =>
            IF req'[r].pc = "idle"
            THEN redis[last'.key].w.deleted => last'.resp.status = 404
            ELSE ~redis[req'[r].key].w.deleted
      ]_vars

C3_Witness ==
    /\ Answered("get") /\ last.resp.status = 404
    /\ last.seen.w.by = "store" /\ last.seen.w.deleted
    /\ last.seen.at < last.seen.w.at + last.seen.w.ttl

\* C4: exists answers exists=false and no ttl_remaining for a key never
\* written; for a key whose store is neither expired, deleted nor overwritten
\* while exists runs, it answers exists=true with 0 <= ttl_remaining <= ttl
\* (500 when the backing store cannot be reached).
C4_Exists ==
    Answered("exists") =>
      /\ ~Reached => last.resp.status = 500
      /\ (Reached /\ last.seen.w.by = "none") =>
            /\ last.resp.status = 200
            /\ Body = PyDict(<< <<"key", PyKey(last.key)>>, <<"exists", PyBool(FALSE)>> >>)
      /\ (Reached /\ last.seen.w.by = "store" /\ last.fin.w = last.seen.w
                  /\ StillStored(last.fin.w, last.fin.at)) =>
            /\ last.resp.status = 200
            /\ PyGet(Body, "exists") = PyBool(TRUE)
            /\ PyGet(Body, "ttl_remaining")[1] = "int"
            /\ PyGet(Body, "ttl_remaining")[2] \in 0..last.seen.w.ttl

C4_Witness ==
    /\ Answered("exists") /\ last.resp.status = 200
    /\ last.seen.w.by = "store" /\ last.fin.at = last.seen.w.at
    /\ PyGet(Body, "exists") = PyBool(TRUE)
    /\ PyGet(Body, "ttl_remaining") = PyInt(last.seen.w.ttl)

\* C5: when the ttl query answers -1 (a key without expiry), get and exists
\* report ttl_remaining as None and the key as present; no response carries
\* ttl_remaining = -1.
C5_NoExpiry ==
    /\ (last.op \in {"get", "exists"} /\ last.pc = "done"
          /\ last.fin.asked /\ last.fin.ttl = NoExpiry) =>
            /\ last.resp.status # 404
            /\ last.resp.status = 200 =>
                  /\ DictHas(Body[2], "ttl_remaining")
                  /\ PyGet(Body, "ttl_remaining") = PyNone
                  /\ last.op = "exists" => PyGet(Body, "exists") = PyBool(TRUE)
                  /\ last.op = "get" => PyGet(Body, "key") = PyKey(last.key)
            /\ (last.op = "exists" \/ last.cached_entry = ForeignEnvelope)
                  => last.resp.status = 200
    /\ (last.op \in {"get", "exists"} /\ last.resp.status = 200)
          => PyGet(Body, "ttl_remaining") # PyInt(NoExpiry)

C5_Witness ==
    /\ Answered("get") /\ last.resp.status = 200
    /\ last.fin.asked /\ last.fin.ttl = NoExpiry
    /\ PyGet(Body, "ttl_remaining") = PyNone
    /\ PyGet(Body, "data") = DataA

\* C10: the health endpoint always answers 200; the status is healthy exactly
\* when the connection was obtained and the ping answered, and unhealthy when
\* building the pool or the ping raised.
C10_Health ==
    Answered("health") =>
      /\ last.resp.status = 200
      /\ last.seen.up => /\ PyGet(Body, "status") = PyStr("healthy")
                         /\ PyGet(Body, "redis") = PyStr("connected")
      /\ ~last.seen.up => /\ PyGet(Body, "status") = PyStr("unhealthy")
                          /\ PyGet(Body, "redis") = PyStr("disconnected")

C10_Witness ==
    /\ Answered("health") /\ last.resp.status = 200
    /\ PyGet(Body, "status") = PyStr("unhealthy")
    /\ config_ok /\ redis_pool = "pool"

(***************************************************************************)
(* Properties of the bulk write.                                           *)
(***************************************************************************)
RECURSIVE LastData(_, _)
\* the data of the last item of a batch that has key k
LastData(batch, k) ==
    IF batch[Len(batch)][1] = k THEN batch[Len(batch)][2]
    ELSE LastData(SubSeq(batch, 1, Len(batch) - 1), k)

\* the get answered last read a key that a bulk write which succeeded wrote,
\* before the entry expired or was deleted or overwritten
ReadBack ==
    /\ Answered("get") /\ Reached
    /\ last.seen.w.by = "bulk" /\ StillStored(last.seen.w, last.seen.at)

\* C6 as claimed: the get by item i's key returns item i's data, for every
\* item i of the batch.
C6_AsClaimed ==
    ReadBack =>
      /\ last.resp.status = 200
      /\ \A i \in DOMAIN last.seen.w.batch :
            last.seen.w.batch[i][1] = last.key
               => PyGet(Body, "data") = last.seen.w.batch[i][2]

\* C6 amended: the get by item i's key returns the data of the last item of
\* the batch that has that key, which is item i's data when no later item of
\* the batch repeats the key.
C6_BulkReadBack ==
    ReadBack =>
      /\ last.resp.status = 200
      /\ PyGet(Body, "data") = LastData(last.seen.w.batch, last.key)
      /\ PyGet(Body, "cached_at") = last.seen.w.cached_at

C6_Witness ==
    /\ ReadBack /\ last.resp.status = 200
    /\ Len(last.seen.w.batch) = 2
    /\ last.seen.w.batch[1][1] # last.seen.w.batch[2][1]
    /\ last.key = last.seen.w.batch[1][1]
    /\ PyGet(Body, "data") = last.seen.w.batch[1][2]
    /\ events = MaxEvents

(***************************************************************************)
(* Properties of the workflow coordinator.                                 *)
(***************************************************************************)
Terminal == {PyStr("COMPLETED"), PyStr("FAILED"), PyStr("ERROR")}

\* C7: when the trigger succeeded, the health endpoint reported healthy and
\* the job reported non-terminal statuses and then COMPLETED, the run has
\* written the placeholder exactly once, deleted it exactly once and returned
\* the COMPLETED payload.
C7_SuccessPath ==
    (/\ wf.pc = "returned"
     /\ wf.run_id # PyNone
     /\ PyGet(wf.health, "status") = PyStr("healthy")
     /\ wf.status = PyStr("COMPLETED"))
    => /\ wf.stores = 1
       /\ wf.deletes = 1
       /\ wf.result = wf.final_status
       /\ StatusOf(wf.result) = PyStr("COMPLETED")

\* C8: a status poll that reports FAILED or ERROR ends the run with the
\* workflow-failure exception whose message is "Workflow failed: " followed by
\* the error the job reported (its text, or None when it reported none), and
\* the run has issued no delete and removed no entry of its key.
C8_FailurePath ==
    wf.status \in {PyStr("FAILED"), PyStr("ERROR")}
    => /\ wf.pc = "raised"
       /\ wf.exc.type = "Exception"
       /\ wf.exc.text = <<"Workflow failed: ">> \o Format(job.error)
       /\ job.error # PyNone => wf.exc.text[Len(wf.exc.text)] = job.error[2]
       /\ wf.deletes = 0
       /\ ~redis[CompositeKey].w.deleted
       /\ wf.final_status = PyNone

C8_Witness ==
    /\ wf.pc = "raised"
    /\ wf.status = PyStr("FAILED")
    /\ job.error = PyStr("boom")
    /\ wf.poll_count >= 2
    /\ redis[CompositeKey].present

\* the run has left poll_until_complete
Polled == wf.pc \in {"raised", "finished", "awaiting", "returned"} /\ wf.poll_count > 0

\* C9: poll_until_complete raises TimeoutError only when max_wait_time seconds
\* or more have passed since it started, and then returns no status payload;
\* a run whose polls were all answered and all reported a non-terminal status
\* leaves poll_until_complete only with that TimeoutError; the TimeoutError is
\* of another type than the exception of a reported failure.
C9_Timeout ==
    /\ wf.exc.type = "TimeoutError"
       => /\ wf.pc = "raised"
          /\ wf.at - wf.start_time >= wf.max_wait_time
          /\ wf.final_status = PyNone /\ wf.result = PyNone
          /\ wf.status \notin Terminal
          /\ wf.exc # WorkflowFailed(job.error)
    /\ (wf.pc = "raised" /\ Polled /\ wf.status \notin Terminal
        /\ wf.exc.text[1] # "Failed to get workflow status: ")
       => wf.exc.type = "TimeoutError"
    /\ wf.final_status # PyNone => wf.status = PyStr("COMPLETED")
    /\ wf.status \in {PyStr("FAILED"), PyStr("ERROR")} => wf.exc.type # "TimeoutError"

C9_Witness ==
    /\ wf.pc = "raised"
    /\ wf.exc.type = "TimeoutError"
    /\ wf.poll_count >= 2
    /\ wf.status = PyStr("RUNNING")
    /\ wf.at - wf.start_time = wf.max_wait_time

(***************************************************************************)
(* Further properties of the cache service.                                *)
(***************************************************************************)
\* C11: a store whose ttl_seconds is not positive, sent while the backing
\* store answers, is rejected with HTTP 400 (not 500) and leaves the entry of
\* its key as it was.
C11_InvalidArgument ==
    (/\ Answered("store")
     /\ last.items # << >>
     /\ last.items[1].ttl_seconds[1] = "int"
     /\ last.items[1].ttl_seconds[2] <= 0
     /\ last.fin.up)
    => /\ last.resp.status = 400
       /\ redis[last.key].w.cached_at # last.items[1].cached_at
          \/ redis[last.key].w.data # last.items[1].data

\* item i is the last item of the batch that the backing store accepts under
\* its key
LastAccepted(items, i) ==
    /\ SetexAccepts(items[i].ttl_seconds)
    /\ \A j \in DOMAIN items :
          (j > i /\ items[j].key = items[i].key) => ~SetexAccepts(items[j].ttl_seconds)

\* no item of the batch under the key of item i is accepted
NoneAccepted(items, i) ==
    \A j \in DOMAIN items :
       items[j].key = items[i].key => ~SetexAccepts(items[j].ttl_seconds)

\* C12: a bulk store is not atomic.  When the backing store refuses a command
\* of the batch, the commands it accepts are still applied, in batch order
\* (each key holds the last accepted item of the batch for it, with that
\* item's expiry), the keys of the refused items are left as they were, and
\* the response is HTTP 500 whose body is a detail text only: no list of keys.
C12_BulkNotAtomic ==
    [][\A r \in Reqs :
         (BulkExecute(r) /\ reachable /\ ~AllAccepted(req[r].items))
         => LET items == req[r].items IN
            /\ last'.resp.status = 500
            /\ last'.resp.body[1] = "dict"
            /\ \A f \in {"keys", "success", "message"} : ~DictHas(last'.resp.body[2], f)
            /\ DictHas(last'.resp.body[2], "detail")
            /\ \A i \in DOMAIN items :
                  /\ LastAccepted(items, i)
                     => /\ redis'[items[i].key].present
                        /\ redis'[items[i].key].value = items[i].cache_value
                        /\ redis'[items[i].key].expireAt = now + items[i].ttl_seconds[2]
                  /\ NoneAccepted(items, i)
                     => redis'[items[i].key] = redis[items[i].key]]_vars

\* a failed bulk store has left the first item of its batch written and the
\* second absent
C12_Witness ==
    /\ Answered("bulk")
    /\ last.resp.status = 500
    /\ Len(last.items) = 2
    /\ last.items[1].key # last.items[2].key
    /\ redis[last.items[1].key].present
    /\ redis[last.items[1].key].value = last.items[1].cache_value
    /\ redis[last.items[1].key].w.by = "bulk_failed"
    /\ ~redis[last.items[2].key].present

(***************************************************************************)
(* Properties of the connection pool.                                      *)
(***************************************************************************)
\* C13: the pool is constructed at most once per process.  The global, once
\* it refers to a pool, refers to that pool for good, and the redis_conn of
\* every request and of the lifespan is bound to the pool the global refers
\* to, however the first calls of get_redis_connection interleave.
C13_OnePool ==
    [][/\ redis_pool # "None" => redis_pool' = redis_pool
       /\ \A r \in Reqs : req'[r].pc # "idle" => req'[r].pool = redis_pool'
       /\ last'.pool \in {"None", redis_pool'}
       /\ app'.conn \in {"None", redis_pool'}
       /\ redis_pool' \in {"None", "pool"}]_vars

\* two requests are in flight whose calls of get_redis_connection were the
\* first two of the process
C13_Witness ==
    /\ app.starts = 0
    /\ events = 2
    /\ \A r \in Reqs : req[r].pc # "idle" /\ req[r].pool = "pool"
    /\ redis_pool = "pool"

\* the body of resp tells of a pool that had no connection left
FullPool(resp) ==
    /\ resp.body[1] = "dict"
    /\ \E f \in {"detail", "error"} :
          /\ DictHas(resp.body[2], f)
          /\ \E i \in DOMAIN DictGet(resp.body[2], f)[2] :
                DictGet(resp.body[2], f)[2][i] = "Too many connections"

\* C15: an operation that finds max_connections connections of the pool taken
\* waits for one and then proceeds: no request is answered with the failure of
\* a full pool.
C15_SaturationWaits ==
    last.pc = "done" => ~FullPool(last.resp)

\* C16: after the lifespan has torn the pool down, get_redis_connection gives
\* no connection bound to the torn-down pool: neither the redis_conn of a
\* later startup nor that of a later request is bound to a disconnected pool.
C16_Teardown ==
    /\ app.conn \notin app.disconnected
    /\ \A r \in Reqs : req[r].pc # "idle" => req[r].pool \notin app.disconnected

(***************************************************************************)
(* Properties of concurrent requests on one key.                           *)
(***************************************************************************)
\* the entry e is, as a whole, what one store of data, cached_at and ttl
\* that the backing store applied at time t leaves
WholeWrite(e, data, cached_at, ttl, t) ==
    /\ e.present
    /\ json_loads(e.value).ok
    /\ json_loads(e.value).val =
          PyDict(<< <<"data", data>>, <<"cached_at", cached_at>>,
                    <<"original_ttl", PyInt(ttl)>> >>)
    /\ e.expireAt = t + ttl

\* C14: same-key writes are last-write-wins with full replacement.  The setex
\* of a store leaves under its key exactly that store's envelope and that
\* store's ttl counted from the moment of the setex, whatever the key held and
\* whatever other stores are in flight; and every entry a store wrote last is
\* wholly the envelope and the expiry of that one write.
C14_LastWriteWins ==
    [][/\ \A r \in Reqs :
            (StoreSetex(r) /\ reachable /\ SetexAccepts(req[r].items[1].ttl_seconds))
            => LET it == req[r].items[1] IN
               /\ WholeWrite(redis'[it.key], it.data, it.cached_at, it.ttl_seconds[2], now)
               /\ \A k \in Keys \ {it.key} : redis'[k] = redis[k]
       /\ \A k \in Keys :
            redis'[k].w.by = "store" /\ ~redis'[k].w.deleted
            => WholeWrite(redis'[k], redis'[k].w.data, redis'[k].w.cached_at,
                          redis'[k].w.ttl, redis'[k].w.at)]_vars

\* a store has replaced, with other data and another ttl, the entry that
\* another store wrote to the key after this one had built its envelope
C14_Witness ==
    /\ Answered("store") /\ last.resp.status = 200
    /\ last.fin.w.by = "store" /\ ~last.fin.w.deleted
    /\ last.fin.w.at >= last.items[1].cached_at[2]
    /\ last.fin.w.cached_at[2] > last.items[1].cached_at[2]
    /\ last.fin.w.data # last.items[1].data
    /\ last.fin.w.ttl # last.items[1].ttl_seconds[2]
    /\ WholeWrite(redis[last.key], last.items[1].data, last.items[1].cached_at,
                  last.items[1].ttl_seconds[2], last.fin.at)

(***************************************************************************)
(* Properties of the poll loop.                                            *)
(***************************************************************************)
FetchFailed == Exception(<<"Failed to get workflow status: ", "503">>)

\* C17: only a reported COMPLETED, FAILED or ERROR ends polling.  A poll that
\* fetched any other payload (RUNNING, no status, a status the loop does not
\* know) neither returns nor raises: the loop sleeps poll_interval seconds,
\* comes back to its test no earlier than that, and polls again when the
\* budget has not elapsed.
C17_KeepsPolling ==
    [][/\ (WfStatus /\ wf'.exc # FetchFailed)
          => IF PyGet(JobPayload(job), "status") \in Terminal
             THEN wf'.pc \in {"finished", "raised"}
             ELSE /\ wf'.pc = "sleep"
                  /\ wf'.wake = now + wf.poll_interval
                  /\ wf'.exc = NoExc
                  /\ wf'.final_status = PyNone /\ wf'.result = PyNone
                  /\ wf'.poll_count = wf.poll_count
       /\ (wf.pc = "sleep" /\ wf'.pc # "sleep")
          => now >= wf.wake /\ wf'.pc = "loop" /\ wf'.exc = NoExc
       /\ (wf.pc = "loop" /\ wf'.pc # "loop" /\ now - wf.start_time < wf.max_wait_time)
          => wf'.pc = "status" /\ wf'.poll_count = wf.poll_count + 1]_vars

\* the third poll of a run is under way, the second having met a status the
\* loop does not know
C17_Witness ==
    /\ wf.pc = "status"
    /\ wf.poll_count = 3
    /\ wf.status = PyStr("QUEUED")
    /\ job.pc = "RUNNING"
    /\ wf.exc = NoExc

\* C18: a 200 response of get or exists that reports the key as present
\* carries a ttl_remaining that is null or a non-negative integer, also when
\* the key is deleted or expires between the handler's first command and its
\* ttl query: the -1 and -2 of the backing store never reach the caller.
C18_NoSentinel ==
    (/\ last.pc = "done" /\ last.op \in {"get", "exists"}
     /\ last.resp.status = 200
     /\ DictHas(Body[2], "ttl_remaining"))
    => \/ PyGet(Body, "ttl_remaining") = PyNone
       \/ /\ PyGet(Body, "ttl_remaining")[1] = "int"
          /\ PyGet(Body, "ttl_remaining")[2] >= 0

(***************************************************************************)
(* Properties of the entries this service writes.                          *)
(***************************************************************************)
ByService(w) == w.by \in {"store", "bulk", "bulk_failed"}

\* C19: every key this service wrote last carries an expiry.  In every state,
\* an entry whose latest write is a store or a bulk store has the expiry that
\* its SETEX set with the value, a positive ttl after the write; while it can
\* be read its remaining ttl is positive and at most that ttl, and once the
\* ttl has passed it is absent for every reader.
C19_AlwaysExpires ==
    \A k \in Keys :
       (redis[k].present /\ ByService(redis[k].w))
       => /\ redis[k].w.ttl > 0
          /\ redis[k].expireAt # NoExpiry
          /\ redis[k].expireAt = redis[k].w.at + redis[k].w.ttl
          /\ Live(redis[k], now)
             => /\ RedisTtl(redis, k, now) > 0
                /\ RedisTtl(redis, k, now) <= redis[k].w.ttl
          /\ now >= redis[k].w.at + redis[k].w.ttl
             => /\ RedisGet(redis, k, now).nil
                /\ RedisExists(redis, k, now) = 0
                /\ RedisTtl(redis, k, now) = KeyAbsent

\* a store without a ttl was refused and wrote nothing, and an entry that a
\* store wrote has expired
C19_Witness ==
    /\ Answered("store")
    /\ last.items # << >> /\ last.items[1].ttl_seconds = PyNone
    /\ last.resp.status = 500
    /\ \E k \in Keys :
          /\ redis[k].present /\ redis[k].w.by = "store"
          /\ now >= redis[k].expireAt
          /\ RedisGet(redis, k, now).nil

\* the ways poll_until_complete ends
Returned ==
    /\ wf.pc = "finished" /\ wf.exc = NoExc
    /\ wf.final_status # PyNone /\ PyGet(wf.final_status, "status") = PyStr("COMPLETED")
RaisedFailure ==
    /\ wf.pc = "raised" /\ wf.exc = WorkflowFailed(job.error)
    /\ wf.status \in {PyStr("FAILED"), PyStr("ERROR")} /\ wf.final_status = PyNone
RaisedRequest ==
    wf.pc = "raised" /\ wf.exc = FetchFailed /\ wf.final_status = PyNone
RaisedTimeout ==
    wf.pc = "raised" /\ wf.exc.type = "TimeoutError" /\ wf.final_status = PyNone

PollEnded == wf.pc \in {"finished", "raised"}

\* the least integer that is no less than a / b
CeilDiv(a, b) == (a + b - 1) \div b

\* C20: poll_until_complete terminates when every status request is answered
\* and time advances.  It ends in exactly one of: the COMPLETED payload
\* returned, the failure of FAILED or ERROR raised, the error of a failed
\* status request raised (at the first such request), TimeoutError raised; and
\* it never makes more than ceil(max_wait_time / poll_interval) polls.
C20_Terminates ==
    /\ [](/\ wf.poll_count <= CeilDiv(wf.max_wait_time, wf.poll_interval)
          /\ PollEnded
             => Cardinality({i \in 1..4 :
                    \/ i = 1 /\ Returned
                    \/ i = 2 /\ RaisedFailure
                    \/ i = 3 /\ RaisedRequest
                    \/ i = 4 /\ RaisedTimeout}) = 1
          /\ ~PollEnded => wf.exc = NoExc /\ wf.final_status = PyNone)
    /\ <>PollEnded

\* a run has made every poll its budget allows, none of which met a terminal
\* status, and has ended with TimeoutError
C20_Witness ==
    /\ RaisedTimeout
    /\ wf.max_wait_time = MaxWait /\ wf.poll_interval = 1
    /\ wf.poll_count = CeilDiv(wf.max_wait_time, wf.poll_interval)
    /\ wf.status \notin Terminal

====
